---- MODULE Spec2Model ----
(***************************************************************************)
(* TFOptimizer (mlagents/trainers/optimizer.py): reward-signal wiring,     *)
(* trajectory and bootstrap value estimation, and the zero-memory helper.  *)
(* Arrays are sequences, dicts are functions, None is <<>> and a present   *)
(* optional value x is <<x>>.                                              *)
(***************************************************************************)
EXTENDS Integers, Sequences, FiniteSets, TLC

VARIABLES
    phase,          \* "new" | "base" (TFOptimizer.__init__ done) | "ready"
    policy,         \* self.policy: the attributes of the policy the code reads
    params,         \* the policy parameters held by self.sess
    config,         \* trainer_params["reward_signals"]
    reward_signals, \* self.reward_signals
    update_dict,    \* self.update_dict
    value_heads,    \* self.value_heads
    memory_in,      \* self.memory_in
    memory_out,     \* self.memory_out
    m_size,         \* self.m_size
    op,             \* the last operation called
    args,           \* its arguments
    batch,          \* the buffer passed to the last trajectory call, after the call
    raised,         \* the exception that left the last call, "" when it returned
    runs,           \* the feed_dicts given to sess.run during the last call, in order
    ve_call,        \* the arguments of the last get_value_estimates invocation
    ret,            \* what the last call returned: <<>> when it raised
    prev_ret,       \* what the get_value_estimates invocation before it returned
    same,           \* that invocation had the same arguments, and no update between
    zm              \* _make_zero_mem: its inputs and its result

vars == <<phase, policy, params, config, reward_signals, update_dict, value_heads,
          memory_in, memory_out, m_size, op, args, batch, raised, runs, ve_call,
          ret, prev_ret, same, zm>>

----------------------------------------------------------------------------
(* Bounds *)

MaxBatch == 2       \* batch.num_experiences is 1 or MaxBatch
NumValues == 3      \* network outputs range over 0..NumValues-1
MaxUpdates == 1     \* update calls in one run
MaxMSize == 8       \* _make_zero_mem: m_size ranges over 0..MaxMSize
MaxLength == 24     \* _make_zero_mem: length ranges over 0..MaxLength
MaxSeqLen == 8      \* policy.sequence_length ranges over 1..MaxSeqLen

None == <<>>
Some(x) == <<x>>

SignalNames == {"extrinsic", "curiosity"}
FieldNames == {"vector_obs", "visual_obs0", "prev_action", "actions"}

RECURSIVE SumSeq(_)
SumSeq(s) == IF s = <<>> THEN 0 ELSE Head(s) + SumSeq(Tail(s))

RECURSIVE Concat(_)
Concat(ss) == IF ss = <<>> THEN <<>> ELSE Head(ss) \o Concat(Tail(ss))

\* np.zeros((m))
Zeros(m) == [i \in 1..m |-> 0]

\* "visual_obs%d" % i
VisualObsKey(i) == IF i = 0 THEN "visual_obs0" ELSE "visual_obs1"
\* self.policy.visual_in[i]
VisualIn(i) == IF i = 0 THEN "visual_in0" ELSE "visual_in1"

----------------------------------------------------------------------------
(* The policies, buffers and observations the trainer can pass in *)

Policies ==
    { [use_recurrent |-> r, vec_obs_size |-> v, vis_obs_size |-> w,
       prev_action |-> p, m_size |-> IF r THEN 2 ELSE 0] :
        r \in BOOLEAN, v \in 0..1, w \in 0..1, p \in BOOLEAN }

\* a field of the buffer: one entry per experience
FieldData(f, n) ==
    CASE f = "vector_obs"  -> [t \in 1..n |-> <<t % 2>>]
      [] f = "visual_obs0" -> [t \in 1..n |-> (t + 1) % 2]
      [] f = "prev_action" -> [t \in 1..n |-> t % 2]
      [] f = "actions"     -> [t \in 1..n |-> (t + 1) % 2]

\* the buffers: of one experience or of MaxBatch, with every field or all but one
Batches ==
    { [num_experiences |-> n, fields |-> [f \in F |-> FieldData(f, n)]] :
        n \in {1, MaxBatch},
        F \in { FieldNames } \cup { FieldNames \ {f} : f \in FieldNames } }

NoBatch == [num_experiences |-> 0, fields |-> <<>>]

\* next_obs: a list of arrays, each a vector or an image
Observations ==
    { << [kind |-> "vec", val |-> <<0>>] >>,
      << [kind |-> "vec", val |-> <<1>>], [kind |-> "vis", val |-> 1] >> }

\* trainer_params["reward_signals"]: name -> config of that signal
Configs ==
    UNION { [N -> [use_terminal_states : BOOLEAN]] : N \in SUBSET SignalNames }

\* the orders in which .items() can yield the entries of a dict
RECURSIVE Orders(_)
Orders(S) ==
    IF S = {} THEN { <<>> }
    ELSE UNION { { <<x>> \o o : o \in Orders(S \ {x}) } : x \in S }

Items(d) == { [i \in 1..Len(o) |-> <<o[i], d[o[i]]>>] : o \in Orders(DOMAIN d) }

----------------------------------------------------------------------------
(* Reward-signal wiring *)

\* the update sub-graph a reward signal exposes: its own named update targets
SignalUpdateDict(name) ==
    [k \in { <<name, "loss">>, <<name, "update">> } |-> <<"tensor", k[1], k[2]>>]

\* create_reward_signal(policy, reward_signal, config)
create_reward_signal(name, cfg) ==
    [use_terminal_states |-> cfg.use_terminal_states,
     update_dict |-> SignalUpdateDict(name)]

\* the loop with "self.update_dict = ..." in place of "self.update_dict.update(...)"
RECURSIVE create_reward_signals_replace(_, _, _)
create_reward_signals_replace(items, rs, ud) ==
    IF items = <<>> THEN [reward_signals |-> rs, update_dict |-> ud]
    ELSE LET reward_signal == Head(items)[1]
             sig == create_reward_signal(reward_signal, Head(items)[2])
         IN create_reward_signals_replace(Tail(items),
                (reward_signal :> sig) @@ rs, sig.update_dict)

\* create_reward_signals: the loop over reward_signal_configs.items(), from
\* self.reward_signals = rs and self.update_dict = ud
RECURSIVE create_reward_signals(_, _, _)
create_reward_signals(items, rs, ud) ==
    IF items = <<>> THEN [reward_signals |-> rs, update_dict |-> ud]
    ELSE LET reward_signal == Head(items)[1]
             sig == create_reward_signal(reward_signal, Head(items)[2])
         IN create_reward_signals(Tail(items),
                (reward_signal :> sig) @@ rs, sig.update_dict @@ ud)

----------------------------------------------------------------------------
(* The execution session: self.sess.run(fetches, feed_dict) *)

HeadIdx(k) == IF k = "extrinsic" THEN 0 ELSE 1

Fed(feed, h) == h \in DOMAIN feed

\* what row t of the fed inputs contributes to the outputs of row t
RowDigest(feed, t) ==
      (IF Fed(feed, "vector_in") THEN SumSeq(feed["vector_in"][t]) ELSE 0)
    + (IF Fed(feed, "visual_in0") THEN feed["visual_in0"][t] ELSE 0)
    + (IF Fed(feed, "prev_action") THEN feed["prev_action"][t] ELSE 0)

\* what the fed recurrent memories contribute
MemDigest(feed) ==
      (IF Fed(feed, "policy_memory_in") THEN SumSeq(feed["policy_memory_in"][1]) ELSE 0)
    + (IF Fed(feed, "value_memory_in") THEN 2 * SumSeq(feed["value_memory_in"][1]) ELSE 0)

\* sess.run(self.value_heads, feed_dict): per head an array of shape (batch, 1)
RunValueHeads(feed) ==
    [k \in DOMAIN value_heads |->
        [t \in 1..feed["batch_size_ph"] |->
            << (params + HeadIdx(k) + RowDigest(feed, t) + MemDigest(feed)) % NumValues >>]]

\* sess.run of a memory_out tensor: an array of shape (1, size)
RunMemoryOut(feed, size, salt) ==
    << [i \in 1..size |->
          (params + salt + i + MemDigest(feed)
             + RowDigest(feed, feed["batch_size_ph"])) % NumValues] >>

\* the feed_dict key of a tensor attribute that may be None
Handle(t) == IF t = None THEN "None" ELSE t[1]

\* self.policy.prev_action as a feed_dict key: None when the policy has no such input
PrevActionIn == IF policy.prev_action THEN "prev_action" ELSE "None"

\* sess.run rejects a feed_dict with a key that is not a tensor
BadFeed(feed) == "None" \in DOMAIN feed

\* a feed_dict entry written only when cond holds
Entry(cond, h, v) == IF cond THEN h :> v ELSE <<>>

----------------------------------------------------------------------------
(* Bootstrap value estimation *)

\* SplitObservations.from_observations(next_obs)
SplitObservations(next_obs) ==
    LET vecs == SelectSeq(next_obs, LAMBDA o : o.kind = "vec")
        viss == SelectSeq(next_obs, LAMBDA o : o.kind = "vis")
    IN [vector_observations |-> Concat([i \in 1..Len(vecs) |-> vecs[i].val]),
        visual_observations |-> [i \in 1..Len(viss) |-> viss[i].val]]

\* float(v) of an array holding one element
Float(v) == v[1][1]

\* lines 129-132 without the assignment of 0.0
TerminalStates_keep(est, done) == est

\* lines 129-132 without the test of use_terminal_states
TerminalStates_all(est, done) ==
    IF done THEN [k \in DOMAIN est |-> 0] ELSE est

\* lines 129-132 building the result from the reassigned signals only
TerminalStates_only(est, done) ==
    IF done
    THEN [k \in { j \in DOMAIN est : reward_signals[j].use_terminal_states } |-> 0]
    ELSE est

\* lines 129-132: if done, reassign the estimates of the signals that use terminal states
TerminalStates(est, done) ==
    IF done
    THEN [k \in DOMAIN est |->
            IF reward_signals[k].use_terminal_states THEN 0 ELSE est[k]]
    ELSE est

\* the feed_dict of get_value_estimates, with the memories of the invocation before
\* standing in for the ones not passed
ValueFeed_stale(vis, vec, policy_memory, value_memory, prev_action) ==
    LET pm == IF policy_memory = None /\ ve_call # None
              THEN ve_call[1].policy_memory ELSE policy_memory
        vm == IF value_memory = None /\ ve_call # None
              THEN ve_call[1].value_memory ELSE value_memory
    IN     Entry(prev_action # None, PrevActionIn, prev_action)
        @@ Entry(vm # None, Handle(memory_in), IF vm = None THEN <<>> ELSE vm[1])
        @@ Entry(pm # None, "policy_memory_in", IF pm = None THEN <<>> ELSE pm[1])
        @@ Entry(policy.vec_obs_size > 0, "vector_in", <<vec>>)
        @@ [h \in { VisualIn(i) : i \in 0..(Len(vis) - 1) } |->
               << vis[(CHOOSE i \in 0..(Len(vis) - 1) : VisualIn(i) = h) + 1] >>]
        @@ ("batch_size_ph" :> 1) @@ ("sequence_length_ph" :> 1)

\* lines 108-123: the feed_dict of get_value_estimates
ValueFeed(vis, vec, policy_memory, value_memory, prev_action) ==
       Entry(prev_action # None, PrevActionIn, prev_action)
    @@ Entry(value_memory # None, Handle(memory_in),
             IF value_memory = None THEN <<>> ELSE value_memory[1])
    @@ Entry(policy_memory # None, "policy_memory_in",
             IF policy_memory = None THEN <<>> ELSE policy_memory[1])
    @@ Entry(policy.vec_obs_size > 0, "vector_in", <<vec>>)
    @@ [h \in { VisualIn(i) : i \in 0..(Len(vis) - 1) } |->
           << vis[(CHOOSE i \in 0..(Len(vis) - 1) : VisualIn(i) = h) + 1] >>]
    @@ ("batch_size_ph" :> 1) @@ ("sequence_length_ph" :> 1)

\* get_value_estimates(next_obs, done, policy_memory, value_memory, prev_action);
\* the optional arguments are None or Some(array)
get_value_estimates(next_obs, done, policy_memory, value_memory, prev_action) ==
    LET obs == SplitObservations(next_obs)
        vis == obs.visual_observations
    IN IF Len(vis) > policy.vis_obs_size
       THEN \* self.policy.visual_in[i] past the end of the list
            [raised |-> "IndexError", runs |-> <<>>, ret |-> None]
       ELSE
       LET feed == ValueFeed(vis, obs.vector_observations,
                             policy_memory, value_memory, prev_action)
           out == RunValueHeads(feed)
           est == [k \in DOMAIN out |-> Float(out[k])]
       IN IF BadFeed(feed)
          THEN [raised |-> "TypeError", runs |-> <<feed>>, ret |-> None]
          ELSE IF done /\ ~(DOMAIN est \subseteq DOMAIN reward_signals)
          THEN \* self.reward_signals[k] of a name that is not registered
               [raised |-> "KeyError", runs |-> <<feed>>, ret |-> None]
          ELSE [raised |-> "", runs |-> <<feed>>,
                ret |-> Some(TerminalStates(est, done))]

----------------------------------------------------------------------------
(* Trajectory value estimation *)

\* batch[key] fails when the buffer has no field of that name
Has(b, key) == key \in DOMAIN b.fields

\* some field the policy makes lines 60-70 and 76 read is not in the buffer
MissingField(b) ==
    \/ policy.vec_obs_size > 0 /\ ~Has(b, "vector_obs")
    \/ policy.vis_obs_size > 0
         /\ \E i \in 0..(policy.vis_obs_size - 1) : ~Has(b, VisualObsKey(i))
    \/ policy.prev_action /\ ~Has(b, "prev_action")
    \/ policy.use_recurrent /\ ~Has(b, "actions")

\* np.squeeze(v, axis=1) of each value head's (batch, 1) output
Squeeze(value_estimates) ==
    [k \in DOMAIN value_estimates |->
        [t \in 1..Len(value_estimates[k]) |-> value_estimates[k][t][1]]]

\* lines 67-68 feeding the memories the invocation before was given
ZeroMemories_stale ==
    IF ve_call # None /\ ve_call[1].policy_memory # None /\ ve_call[1].value_memory # None
    THEN [policy |-> ve_call[1].policy_memory[1], value |-> ve_call[1].value_memory[1]]
    ELSE [policy |-> << Zeros(policy.m_size) >>, value |-> << Zeros(m_size) >>]

\* lines 67-68: [np.zeros((self.policy.m_size))] and [np.zeros((self.m_size))]
ZeroMemories ==
    [policy |-> << Zeros(policy.m_size) >>, value |-> << Zeros(m_size) >>]

\* lines 55-70: the feed_dict of the batch execution
TrajectoryFeed(b) ==
       Entry(policy.prev_action, "prev_action", b.fields["prev_action"])
    @@ Entry(policy.use_recurrent, Handle(memory_in), ZeroMemories.value)
    @@ Entry(policy.use_recurrent, "policy_memory_in", ZeroMemories.policy)
    @@ [h \in { VisualIn(i) : i \in 0..(policy.vis_obs_size - 1) } |->
           b.fields[VisualObsKey(CHOOSE i \in 0..(policy.vis_obs_size - 1) :
                                    VisualIn(i) = h)]]
    @@ Entry(policy.vec_obs_size > 0, "vector_in", b.fields["vector_obs"])
    @@ ("batch_size_ph" :> b.num_experiences)
    @@ ("sequence_length_ph" :> b.num_experiences)

\* lines 72-81 with batch["actions"][0] for batch["actions"][-1]
BootstrapContext_first(b, feed) ==
    IF policy.use_recurrent
    THEN [policy_memory |-> Some(RunMemoryOut(feed, policy.m_size, 0)),
          value_memory |-> Some(RunMemoryOut(feed, m_size, 1)),
          prev_action |-> Some(b.fields["actions"][1])]
    ELSE [policy_memory |-> None, value_memory |-> None, prev_action |-> None]

\* lines 72-81: policy_mem, value_mem and prev_action after the batch execution
BootstrapContext(b, feed) ==
    IF policy.use_recurrent
    THEN [policy_memory |-> Some(RunMemoryOut(feed, policy.m_size, 0)),
          value_memory |-> Some(RunMemoryOut(feed, m_size, 1)),
          prev_action |-> Some(b.fields["actions"][Len(b.fields["actions"])])]
    ELSE [policy_memory |-> None, value_memory |-> None, prev_action |-> None]

\* get_trajectory_value_estimates(batch, next_obs, done)
get_trajectory_value_estimates(b, next_obs, done) ==
    LET KeyError(rs) == [raised |-> "KeyError", runs |-> rs, ve_call |-> None,
                         ret |-> None]
    IN IF policy.vec_obs_size > 0 /\ ~Has(b, "vector_obs") THEN KeyError(<<>>)
       ELSE IF policy.vis_obs_size > 0
               /\ \E i \in 0..(policy.vis_obs_size - 1) : ~Has(b, VisualObsKey(i))
       THEN KeyError(<<>>)
       ELSE IF policy.prev_action /\ ~Has(b, "prev_action") THEN KeyError(<<>>)
       ELSE
       LET feed == TrajectoryFeed(b)
       IN IF BadFeed(feed)
          THEN [raised |-> "TypeError", runs |-> <<feed>>, ve_call |-> None,
                ret |-> None]
          ELSE IF policy.use_recurrent /\ ~Has(b, "actions") THEN KeyError(<<feed>>)
          ELSE
          LET ctx == BootstrapContext(b, feed)
              value_estimates == Squeeze(RunValueHeads(feed))
              final == get_value_estimates(next_obs, done, ctx.policy_memory,
                                           ctx.value_memory, ctx.prev_action)
          IN [raised |-> final.raised,
              runs |-> <<feed>> \o final.runs,
              ve_call |-> Some([next_obs |-> next_obs, done |-> done,
                                policy_memory |-> ctx.policy_memory,
                                value_memory |-> ctx.value_memory,
                                prev_action |-> ctx.prev_action]),
              ret |-> IF final.raised = "" THEN Some(<<value_estimates, final.ret[1]>>)
                      ELSE None]

----------------------------------------------------------------------------
(* _make_zero_mem *)

\* range(0, length, step) for step >= 1
RECURSIVE Range(_, _, _)
Range(start, length, step) ==
    IF start >= length THEN <<>> ELSE <<start>> \o Range(start + step, length, step)

\* the comprehension over range(1, length, ...)
make_zero_mem_from_one(size, length, sequence_length) ==
    [j \in 1..Len(Range(1, length, sequence_length)) |-> Zeros(size)]

\* _make_zero_mem(m_size, length) with self.policy.sequence_length = sequence_length
make_zero_mem(size, length, sequence_length) ==
    [j \in 1..Len(Range(0, length, sequence_length)) |-> Zeros(size)]

----------------------------------------------------------------------------
(* State machine *)

NoArgs == [batch |-> NoBatch, next_obs |-> <<>>, done |-> FALSE,
           policy_memory |-> None, value_memory |-> None, prev_action |-> None]

NoZeroMem == [m_size |-> 0, length |-> 0, sequence_length |-> 1, out |-> None]

\* what the last get_value_estimates invocation returned, None if it raised
LastValueReturn ==
    IF op = "value" THEN ret
    ELSE IF op = "trajectory" /\ ret # None THEN Some(ret[1][2])
    ELSE None

Init ==
    /\ phase = "new"
    /\ policy \in Policies
    /\ params = 0
    /\ config = <<>>
    /\ reward_signals = <<>>
    /\ update_dict = <<>>
    /\ value_heads = <<>>
    /\ memory_in = None
    /\ memory_out = None
    /\ m_size = 0
    /\ op = "none"
    /\ args = NoArgs
    /\ batch = NoBatch
    /\ raised = ""
    /\ runs = <<>>
    /\ ve_call = None
    /\ ret = None
    /\ prev_ret = None
    /\ same = FALSE
    /\ zm = NoZeroMem

\* TFOptimizer.__init__(policy, trainer_params), lines 41-50
TFOptimizerInit ==
    /\ phase = "new"
    /\ \E cfgs \in Configs : \E items \in Items(cfgs) :
          LET made == create_reward_signals(items, <<>>, <<>>)
          IN /\ config' = cfgs
             /\ reward_signals' = made.reward_signals
             /\ update_dict' = made.update_dict
    /\ value_heads' = <<>>
    /\ memory_in' = None
    /\ memory_out' = None
    /\ m_size' = 0
    /\ phase' = "base"
    /\ op' = "init"
    /\ UNCHANGED <<policy, params, args, batch, raised, runs, ve_call, ret,
                   prev_ret, same, zm>>

\* the rest of the concrete optimizer's constructor: one value head per registered
\* reward signal and, for a recurrent policy, the value function's memory tensors
CreateValueHeads ==
    /\ phase = "base"
    /\ value_heads' = [k \in DOMAIN reward_signals |-> <<"value_head", k>>]
    /\ IF policy.use_recurrent
       THEN /\ memory_in' = Some("value_memory_in")
            /\ memory_out' = Some("value_memory_out")
            /\ m_size' = policy.m_size
       ELSE UNCHANGED <<memory_in, memory_out, m_size>>
    /\ phase' = "ready"
    /\ op' = "init"
    /\ UNCHANGED <<policy, params, config, reward_signals, update_dict, args, batch,
                   raised, runs, ve_call, ret, prev_ret, same, zm>>

\* the record of a call: its arguments a, its result r, the buffer after it
Called(o, a, r, after) ==
    /\ op' = o
    /\ args' = a
    /\ batch' = after
    /\ raised' = r.raised
    /\ runs' = r.runs
    /\ ve_call' = r.ve_call
    /\ ret' = r.ret
    /\ same' = (r.ve_call # None /\ ve_call = r.ve_call)
    /\ prev_ret' = IF r.ve_call # None /\ ve_call = r.ve_call THEN LastValueReturn
                   ELSE None

\* get_trajectory_value_estimates that pops the fields it reads out of the buffer
GetTrajectoryValueEstimates_pop ==
    /\ phase = "ready"
    /\ \E b \in Batches, next_obs \in Observations, done \in BOOLEAN :
          \E r \in { get_trajectory_value_estimates(b, next_obs, done) } :
             Called("trajectory",
                 [NoArgs EXCEPT !.batch = b, !.next_obs = next_obs, !.done = done],
                 r,
                 [b EXCEPT !.fields = [f \in DOMAIN b.fields \ {"actions"} |->
                                          b.fields[f]]])
    /\ UNCHANGED <<phase, policy, params, config, reward_signals, update_dict,
                   value_heads, memory_in, memory_out, m_size, zm>>

\* get_trajectory_value_estimates that catches the failure of a buffer read and
\* returns what it has
GetTrajectoryValueEstimates_catch ==
    /\ phase = "ready"
    /\ \E b \in Batches, next_obs \in Observations, done \in BOOLEAN :
          \E r \in { get_trajectory_value_estimates(b, next_obs, done) } :
             Called("trajectory",
                 [NoArgs EXCEPT !.batch = b, !.next_obs = next_obs, !.done = done],
                 IF r.raised = "KeyError"
                 THEN [r EXCEPT !.raised = "", !.ret = Some(<< <<>>, <<>> >>)]
                 ELSE r,
                 b)
    /\ UNCHANGED <<phase, policy, params, config, reward_signals, update_dict,
                   value_heads, memory_in, memory_out, m_size, zm>>

\* a call of get_trajectory_value_estimates(batch, next_obs, done), lines 52-90
GetTrajectoryValueEstimates ==
    /\ phase = "ready"
    /\ \E b \in Batches, next_obs \in Observations, done \in BOOLEAN :
          \E r \in { get_trajectory_value_estimates(b, next_obs, done) } :
             Called("trajectory",
                    [NoArgs EXCEPT !.batch = b, !.next_obs = next_obs, !.done = done],
                    r, b)
    /\ UNCHANGED <<phase, policy, params, config, reward_signals, update_dict,
                   value_heads, memory_in, memory_out, m_size, zm>>

\* the contexts a caller of get_value_estimates can pass: nothing, or memories
\* of the policy's sizes with a previous action
Contexts ==
    { [policy_memory |-> None, value_memory |-> None, prev_action |-> None] }
    \cup { [policy_memory |-> Some(<< [i \in 1..policy.m_size |-> (c + i) % NumValues] >>),
            value_memory |-> Some(<< [i \in 1..m_size |-> (c + i + 1) % NumValues] >>),
            prev_action |-> Some(c)] : c \in { d \in 0..1 : policy.use_recurrent } }

\* a direct call of get_value_estimates, lines 92-134
GetValueEstimates ==
    /\ phase = "ready"
    /\ \E next_obs \in Observations, done \in BOOLEAN, ctx \in Contexts :
          \E r \in { get_value_estimates(next_obs, done, ctx.policy_memory,
                                         ctx.value_memory, ctx.prev_action) } :
             LET a == [next_obs |-> next_obs, done |-> done] @@ ctx
             IN Called("value",
                       [batch |-> NoBatch] @@ a,
                       [ve_call |-> Some(a)] @@ r,
                       NoBatch)
    /\ UNCHANGED <<phase, policy, params, config, reward_signals, update_dict,
                   value_heads, memory_in, memory_out, m_size, zm>>

\* update(batch, num_sequences) of the concrete optimizer: one gradient step on the
\* policy parameters
Update ==
    /\ phase = "ready"
    /\ params < MaxUpdates
    /\ params' = params + 1
    /\ op' = "update"
    /\ args' = NoArgs
    /\ batch' = NoBatch
    /\ raised' = ""
    /\ runs' = <<>>
    /\ ve_call' = None
    /\ ret' = None
    /\ prev_ret' = None
    /\ same' = FALSE
    /\ UNCHANGED <<phase, policy, config, reward_signals, update_dict, value_heads,
                   memory_in, memory_out, m_size, zm>>

Next ==
    \/ TFOptimizerInit
    \/ CreateValueHeads
    \/ GetTrajectoryValueEstimates
    \/ GetValueEstimates
    \/ Update

Spec == Init /\ [][Next]_vars

----------------------------------------------------------------------------
(* _make_zero_mem as a function of its inputs *)

InitZeroMem ==
    /\ phase = "ready"
    /\ policy \in { p \in Policies : p.use_recurrent /\ p.vec_obs_size = 1
                                     /\ p.vis_obs_size = 0 /\ ~p.prev_action }
    /\ params = 0
    /\ config = <<>>
    /\ reward_signals = <<>>
    /\ update_dict = <<>>
    /\ value_heads = <<>>
    /\ memory_in = None
    /\ memory_out = None
    /\ m_size = 0
    /\ op = "none"
    /\ args = NoArgs
    /\ batch = NoBatch
    /\ raised = ""
    /\ runs = <<>>
    /\ ve_call = None
    /\ ret = None
    /\ prev_ret = None
    /\ same = FALSE
    /\ zm \in { [NoZeroMem EXCEPT !.m_size = m, !.length = l, !.sequence_length = s] :
                  m \in 0..MaxMSize, l \in 0..MaxLength, s \in 1..MaxSeqLen }

\* a call of _make_zero_mem(m_size, length), lines 160-163
MakeZeroMem ==
    /\ zm.out = None
    /\ zm' = [zm EXCEPT !.out = Some(make_zero_mem(zm.m_size, zm.length,
                                                   zm.sequence_length))]
    /\ op' = "make_zero_mem"
    /\ UNCHANGED <<phase, policy, params, config, reward_signals, update_dict,
                   value_heads, memory_in, memory_out, m_size, args, batch, raised,
                   runs, ve_call, ret, prev_ret, same>>

NextZeroMem == MakeZeroMem

SpecZeroMem == InitZeroMem /\ [][NextZeroMem]_vars

----------------------------------------------------------------------------
(* Properties *)

\* the last call was a trajectory estimation that returned
TrajectoryReturned == op = "trajectory" /\ raised = "" /\ ret # None

\* the last call invoked get_value_estimates and the invocation returned
ValueReturned == ve_call # None /\ LastValueReturn # None

\* what the network gave the last get_value_estimates invocation for signal k
NetworkValue(k) == Float(RunValueHeads(runs[Len(runs)])[k])

\* C1: a trajectory estimation that returns gives two mappings whose key sets
\* are equal to each other and to the registered reward-signal names.
C1_KeySets ==
    TrajectoryReturned =>
        /\ DOMAIN ret[1][1] = DOMAIN ret[1][2]
        /\ DOMAIN ret[1][1] = DOMAIN reward_signals
        /\ DOMAIN reward_signals = DOMAIN config

C1_Witness ==
    /\ TrajectoryReturned
    /\ args.done
    /\ \E j, k \in DOMAIN reward_signals :
          reward_signals[j].use_terminal_states /\ ~reward_signals[k].use_terminal_states

\* C2: with done = True every signal that uses terminal states is returned as 0.0,
\* whatever the inputs and whatever the network computed for it.
C2_TerminalZero ==
    (ValueReturned /\ ve_call[1].done) =>
        \A k \in DOMAIN reward_signals :
            reward_signals[k].use_terminal_states =>
                k \in DOMAIN LastValueReturn[1] /\ LastValueReturn[1][k] = 0

C2_Witness ==
    /\ ValueReturned
    /\ ve_call[1].done
    /\ ve_call[1].policy_memory # None
    /\ \E k \in DOMAIN reward_signals :
          reward_signals[k].use_terminal_states /\ NetworkValue(k) # 0

C5_Frame ==
    [][ op' \in {"trajectory", "value"} =>
           /\ batch' = args'.batch
           /\ UNCHANGED <<params, reward_signals, update_dict>> ]_vars

C5_Witness ==
    /\ op = "trajectory"
    /\ raised = ""
    /\ params > 0
    /\ same
    /\ batch = args.batch
    /\ DOMAIN update_dict # {}

\* C6: a trajectory estimation on a buffer that lacks a field the policy expects
\* raises to the caller: nothing is returned, no bootstrap estimate is made, the
\* batch is executed at most once, and the optimizer and policy state stay as
\* they were.
C6_MissingFieldFails ==
    [][ (op' = "trajectory" /\ MissingField(args.batch)') =>
           /\ raised' = "KeyError"
           /\ ret' = None
           /\ ve_call' = None
           /\ Len(runs') <= 1
           /\ UNCHANGED <<policy, params, reward_signals, update_dict, value_heads,
                          memory_in, memory_out, m_size>> ]_vars

C6_Witness ==
    /\ op = "trajectory"
    /\ MissingField(args.batch)
    /\ ~Has(args.batch, "actions")
    /\ Len(runs) = 1

\* C7: after create_reward_signals, reward_signals holds one signal per config
\* name, update_dict holds every signal's update targets, and both are what any
\* iteration order of the config entries gives.
C7_RewardSignals ==
    phase # "new" =>
        /\ DOMAIN reward_signals = DOMAIN config
        /\ \A n \in DOMAIN config :
              /\ reward_signals[n] = create_reward_signal(n, config[n])
              /\ \A k \in DOMAIN reward_signals[n].update_dict :
                    /\ k \in DOMAIN update_dict
                    /\ update_dict[k] = reward_signals[n].update_dict[k]
        /\ \A items \in Items(config) :
              create_reward_signals(items, <<>>, <<>>)
                 = [reward_signals |-> reward_signals, update_dict |-> update_dict]

C7_Witness ==
    /\ phase # "new"
    /\ Cardinality(DOMAIN config) = 2

\* C8: _make_zero_mem(m_size, length) gives ceil(length / s) vectors, one per
\* multiple of s in 0..length-1, each of m_size zeros; 3 vectors of 8 zeros for
\* m_size = 8, length = 24, s = 8.
C8_ZeroMem ==
    zm.out # None =>
        LET out == zm.out[1]
            s == zm.sequence_length
        IN /\ Len(out) = (zm.length + s - 1) \div s
           /\ Len(out) = Cardinality({ i \in 0..(zm.length - 1) : i % s = 0 })
           /\ \A j \in 1..Len(out) :
                 /\ Len(out[j]) = zm.m_size
                 /\ \A i \in 1..zm.m_size : out[j][i] = 0
           /\ (zm.m_size = 8 /\ zm.length = 24 /\ s = 8) => Len(out) = 3

C8_Witness ==
    /\ zm.out # None
    /\ zm.m_size = 8
    /\ zm.length = 24
    /\ zm.sequence_length = 8
    /\ Len(zm.out[1]) = 3

\* the last action in the buffer of the last trajectory call
LastAction == args.batch.fields["actions"][Len(args.batch.fields["actions"])]

\* C9 as stated: the bootstrap step is given the memories of the batch execution
\* and the last action of the batch, whatever the policy.
C9_AlwaysContext ==
    (op = "trajectory" /\ ve_call # None /\ Has(args.batch, "actions")) =>
        /\ ve_call[1].next_obs = args.next_obs
        /\ ve_call[1].done = args.done
        /\ ve_call[1].policy_memory = Some(RunMemoryOut(runs[1], policy.m_size, 0))
        /\ ve_call[1].value_memory = Some(RunMemoryOut(runs[1], m_size, 1))
        /\ ve_call[1].prev_action = Some(LastAction)

\* C9: the bootstrap step gets the caller's next_obs and done; with a recurrent
\* policy it gets the memories the batch execution produced and the last action
\* of the batch, and with a policy that is not recurrent it gets None for all three.
C9_Context ==
    (op = "trajectory" /\ ve_call # None) =>
        /\ ve_call[1].next_obs = args.next_obs
        /\ ve_call[1].done = args.done
        /\ policy.use_recurrent =>
              /\ ve_call[1].policy_memory = Some(RunMemoryOut(runs[1], policy.m_size, 0))
              /\ ve_call[1].value_memory = Some(RunMemoryOut(runs[1], m_size, 1))
              /\ ve_call[1].prev_action = Some(LastAction)
              /\ Len(runs) = 2 =>
                    /\ runs[2]["policy_memory_in"] = ve_call[1].policy_memory[1]
                    /\ runs[2]["value_memory_in"] = ve_call[1].value_memory[1]
                    /\ runs[2][PrevActionIn] = <<LastAction>>
        /\ ~policy.use_recurrent =>
              /\ ve_call[1].policy_memory = None
              /\ ve_call[1].value_memory = None
              /\ ve_call[1].prev_action = None
              /\ Len(runs) = 2 =>
                    DOMAIN runs[2] \cap {"policy_memory_in", "value_memory_in",
                                         "prev_action", "None"} = {}

C9_Witness ==
    /\ op = "trajectory"
    /\ ve_call # None
    /\ policy.use_recurrent
    /\ Len(runs) = 2
    /\ args.batch.num_experiences > 1
    /\ args.batch.fields["actions"][1] # LastAction

\* C10: with a recurrent policy the batch execution of every trajectory
\* estimation is fed all-zero policy and value memories, whatever memories the
\* calls before it produced or were given.
C10_ZeroMemory ==
    (op = "trajectory" /\ policy.use_recurrent /\ runs # <<>>) =>
        /\ runs[1]["policy_memory_in"] = << Zeros(policy.m_size) >>
        /\ runs[1]["value_memory_in"] = << Zeros(m_size) >>
        /\ \A i \in 1..policy.m_size : runs[1]["policy_memory_in"][1][i] = 0
        /\ \A i \in 1..m_size : runs[1]["value_memory_in"][1][i] = 0

C10_Witness ==
    /\ op = "trajectory"
    /\ policy.use_recurrent
    /\ same
    /\ runs # <<>>
    /\ ve_call[1].policy_memory # Some(<< Zeros(policy.m_size) >>)
    /\ ve_call[1].value_memory # Some(<< Zeros(m_size) >>)

====
